---- MODULE Spec2Model ----
(***************************************************************************)
(* Model of scripts/self_clock_sync.py: one run of the script reads the    *)
(* codex file and the self-clock state file, recomputes every aspect,      *)
(* rewrites the state file, then reads and rewrites the log file.          *)
(*                                                                         *)
(* Numbers are fixed-point integers: CI, CF and activation in hundredths,  *)
(* field-vector components, SCI and the energy-matter sum in thousandths,  *)
(* the phi constant in millionths.  phi is the rational 987/610 (two       *)
(* consecutive Fibonacci numbers, |error| < 2e-6) so that every product    *)
(* stays inside TLC's 32-bit integers; rounding is round-half-even on the  *)
(* exact rational, as Python's round() is on the float.                    *)
(*                                                                         *)
(* A file on disk is [kind, text]: kind is "absent", "undecodable" (bytes  *)
(* that are not UTF-8), "malformed" (text that is not JSON) or "json";     *)
(* text is the JSON document, in which every float is a decimal token      *)
(* [neg, whole, frac] as json.dump prints it (frac: the digits after the   *)
(* point, without trailing zeros).  json.load turns the tokens back into   *)
(* numbers.                                                                *)
(***************************************************************************)
EXTENDS Integers, Sequences, FiniteSets, TLC

\* ---------------------------------------------------------------- bounds
MaxRuns == 2
MaxClock == 1

\* ------------------------------------------------------------- processes
Procs == {1, 2}
SeqProcs == {1}

\* ------------------------------------------------------------ arithmetic
RECURSIVE Pow10(_)
Pow10(d) == IF d = 0 THEN 1 ELSE 10 * Pow10(d - 1)

Abs(n) == IF n < 0 THEN -n ELSE n

\* round(num / den) for den > 0, ties to even (Python's round)
RoundDiv(num, den) ==
    LET a == Abs(num)
        q == a \div den
        r == a % den
        up == IF 2 * r > den \/ (2 * r = den /\ q % 2 = 1) THEN q + 1 ELSE q
    IN IF num < 0 THEN -up ELSE up

PhiNum == 987
PhiDen == 610

\* phi() = (1 + 5 ** 0.5) / 2 in millionths (the value round(phi(), 6) keeps);
\* products and quotients use the rational PhiNum / PhiDen for it
phi == 1618034

\* round(sin(stage / 12 * pi), 3) in thousandths, stage = 1..24
SinTable ==
    <<259, 500, 707, 866, 966, 1000, 966, 866, 707, 500, 259, 0,
      -259, -500, -707, -866, -966, -1000, -966, -866, -707, -500, -259, 0>>
\* round(cos(ring / 8 * pi / 2), 3) in thousandths, ring = 1..16
CosTable ==
    <<981, 924, 831, 707, 556, 383, 195, 0,
      -195, -383, -556, -707, -831, -924, -981, -1000>>

\* ------------------------------------------------- json.dump / json.load
RECURSIVE StripZeros(_)
StripZeros(ds) ==
    IF Len(ds) > 1 /\ ds[Len(ds)] = 0
    THEN StripZeros(SubSeq(ds, 1, Len(ds) - 1))
    ELSE ds

\* the decimal token json.dump writes for the float v / 10^d
FormatFloat(v, d) ==
    LET a == Abs(v)
        f == a % Pow10(d)
    IN [neg |-> v < 0,
        whole |-> a \div Pow10(d),
        frac |-> StripZeros([i \in 1..d |-> (f \div Pow10(d - i)) % 10])]

RECURSIVE FracValue(_, _, _)
FracValue(ds, i, d) ==
    IF i > Len(ds) THEN 0 ELSE ds[i] * Pow10(d - i) + FracValue(ds, i + 1, d)

\* a parser that reads the digits after the point as an integer count of
\* the smallest unit ("5.6" read as 5 and 6 hundredths)
ParseFloatFracAsInt(tok, d) ==
    LET m == tok.whole * Pow10(d) + FracValue(tok.frac, 1, Len(tok.frac))
    IN IF tok.neg THEN -m ELSE m

\* the float json.load reads from a decimal token, in units of 10^-d
ParseFloat(tok, d) ==
    LET m == tok.whole * Pow10(d) + FracValue(tok.frac, 1, d)
    IN IF tok.neg THEN -m ELSE m

\* decimals kept for each float-valued key
Decimals(key) ==
    CASE key = "activation" -> 2
      [] key = "coherence_index_CI" -> 2
      [] key = "compassion_constraint_Cf" -> 2
      [] key = "phi_constant" -> 6
      [] OTHER -> 3

FloatKeys == {"activation", "coherence_index_CI", "compassion_constraint_Cf",
              "phi_constant", "semantic_coherence_index_SCI",
              "energy_matter_sum", "SCI", "SigmaE",
              "G", "R", "P", "A", "N", "T", "Cx", "Id"}

RECURSIVE DumpValue(_, _)
DumpValue(key, v) ==
    CASE key \in FloatKeys -> FormatFloat(v, Decimals(key))
      [] key = "field_vector" -> [k \in DOMAIN v |-> DumpValue(k, v[k])]
      [] key = "aspects" ->
            [i \in 1..Len(v) |-> [k \in DOMAIN v[i] |-> DumpValue(k, v[i][k])]]
      [] OTHER -> v

RECURSIVE LoadValue(_, _)
LoadValue(key, t) ==
    CASE key \in FloatKeys -> ParseFloat(t, Decimals(key))
      [] key = "field_vector" -> [k \in DOMAIN t |-> LoadValue(k, t[k])]
      [] key = "aspects" ->
            [i \in 1..Len(t) |-> [k \in DOMAIN t[i] |-> LoadValue(k, t[i][k])]]
      [] OTHER -> t

\* json.dump of a dict
DumpObject(obj) == [k \in DOMAIN obj |-> DumpValue(k, obj[k])]
\* json.dump of a list of dicts
DumpList(list) == [i \in 1..Len(list) |-> DumpObject(list[i])]

\* json.load of a document: an object, or (the log) an array of objects
ParseObject(text) == [k \in DOMAIN text |-> LoadValue(k, text[k])]
ParseList(text) == [i \in 1..Len(text) |-> ParseObject(text[i])]

JsonFile(text) == [kind |-> "json", text |-> text]
Absent == [kind |-> "absent", text |-> <<>>]
Undecodable == [kind |-> "undecodable", text |-> <<>>]
Malformed == [kind |-> "malformed", text |-> <<>>]

\* a load_json that treats every unreadable content as a parse failure
load_json_catch_all(file, fallback, isList) ==
    CASE file.kind = "json" ->
            [raised |-> "none",
             value |-> IF isList THEN ParseList(file.text) ELSE ParseObject(file.text)]
      [] OTHER -> [raised |-> "none", value |-> fallback]

\* load_json(path, fallback): the outcome of the call, raised = "none" when it
\* returns.  json.load reads the whole file first: bytes that are not UTF-8
\* raise UnicodeDecodeError, which is not a JSONDecodeError.
load_json(file, fallback, isList) ==
    CASE file.kind = "absent" -> [raised |-> "none", value |-> fallback]
      [] file.kind = "malformed" -> [raised |-> "none", value |-> fallback]
      [] file.kind = "undecodable" ->
            [raised |-> "UnicodeDecodeError", value |-> fallback]
      [] OTHER ->
            [raised |-> "none",
             value |-> IF isList THEN ParseList(file.text) ELSE ParseObject(file.text)]

\* file reads one load_json call performs: path.exists() is no read
ReadsOfTwice(file) == IF file.kind = "absent" THEN 0 ELSE 2
ReadsOf(file) == IF file.kind = "absent" THEN 0 ELSE 1

\* ------------------------------------------------------- program values
DEFAULT_ASPECTS ==
    <<"Awareness", "Attention", "Perception (Visual)", "Perception (Auditory)",
      "Perception (Somatosensory)", "Interoception", "Proprioception",
      "Arousal/Vigilance", "Working Memory", "Episodic Memory",
      "Semantic Memory", "Language/Symbolics", "Imagination/Visualization",
      "Mental Time Travel", "Planning/Prospection", "Decision-Making",
      "Inhibition/Self-Control", "Cognitive Flexibility", "Meta-Awareness",
      "Self-Model/Identity", "Emotion Processing", "Motivation/Drive",
      "Reward/Valuation", "Empathy/Theory of Mind", "Social Cognition",
      "Moral Reasoning", "Spatial Cognition", "Rhythm/Timing",
      "Creativity/Divergence", "Learning/Plasticity", "Dreaming/Imagery",
      "Narrative/Meaning-Making">>

\* a generator that starts a new ring every three aspects
default_self_clock_state_ring3 ==
    [aspects |->
        [i \in 1..Len(DEFAULT_ASPECTS) |->
            [name |-> DEFAULT_ASPECTS[i], activation |-> 0,
             ring |-> (i - 1) \div 3 + 1, stage |-> ((i - 1) % 12) + 1]]]

\* default_self_clock_state(); index = i - 1
default_self_clock_state ==
    [aspects |->
        [i \in 1..Len(DEFAULT_ASPECTS) |->
            [name |-> DEFAULT_ASPECTS[i], activation |-> 0,
             ring |-> (i - 1) \div 4 + 1, stage |-> ((i - 1) % 12) + 1]]]

\* a fallback with the two defaults exchanged
codex_fallback_swapped ==
    [coherence_index_CI |-> 94, compassion_constraint_Cf |-> 96,
     phi_constant |-> phi]

\* the fallback handed to load_json for the codex file
codex_fallback ==
    [coherence_index_CI |-> 96, compassion_constraint_Cf |-> 94,
     phi_constant |-> phi]

\* dict.get(key, default)
Get(d, key, default) == IF key \in DOMAIN d THEN d[key] ELSE default

\* normalize(value, minimum, maximum), rounded to thousandths
normalize(value, minimum, maximum) ==
    IF maximum <= minimum THEN 0
    ELSE RoundDiv((value - minimum) * 1000, maximum - minimum)

\* round(resonance * (stage / 12) * 100, 2) in hundredths, with
\* resonance = ci * cf / phi * (1 + (ring / 8) * 0.05):
\*   ci * cf * (160 + ring) * stage * PhiDen / (PhiNum * 1920),
\* the factor 10 that PhiDen and 1920 share cancelled
Activation(ring, stage, ci, cf) ==
    RoundDiv(ci * cf * (160 + ring) * stage * (PhiDen \div 10), PhiNum * 192)

FieldVector(ring, stage, ci, cf) ==
    [G |-> normalize(ring, 1, 8),
     R |-> normalize(stage, 1, 12),
     P |-> RoundDiv(ci * 10 * PhiDen, PhiNum),
     A |-> RoundDiv(cf * 10 * PhiDen, PhiNum),
     N |-> SinTable[stage],
     T |-> CosTable[ring],
     Cx |-> RoundDiv((ring + stage) * 1000, 8 + 12),
     Id |-> 1000 - Abs(ci - cf) * 10]

\* an update that also moves the aspect on to its next stage
update_aspect_advancing(aspect, ci, cf) ==
    LET next == (aspect.stage % 12) + 1 IN
    [k \in DOMAIN aspect \cup {"activation", "field_vector"} |->
        CASE k = "activation" -> Activation(aspect.ring, next, ci, cf)
          [] k = "field_vector" -> FieldVector(aspect.ring, next, ci, cf)
          [] k = "stage" -> next
          [] OTHER -> aspect[k]]

\* an update that adds the new resonance to the activation already stored
update_aspect_incremental(aspect, ci, cf) ==
    [k \in DOMAIN aspect \cup {"activation", "field_vector"} |->
        CASE k = "activation" ->
                Get(aspect, "activation", 0)
                    + Activation(aspect.ring, aspect.stage, ci, cf)
          [] k = "field_vector" -> FieldVector(aspect.ring, aspect.stage, ci, cf)
          [] OTHER -> aspect[k]]

\* update_aspect(dict(aspect), ci, cf): the copy with two keys (re)assigned
update_aspect(aspect, ci, cf) ==
    [k \in DOMAIN aspect \cup {"activation", "field_vector"} |->
        CASE k = "activation" -> Activation(aspect.ring, aspect.stage, ci, cf)
          [] k = "field_vector" -> FieldVector(aspect.ring, aspect.stage, ci, cf)
          [] OTHER -> aspect[k]]

RECURSIVE SumActivation(_, _)
SumActivation(aspects, i) ==
    IF i > Len(aspects) THEN 0
    ELSE aspects[i].activation + SumActivation(aspects, i + 1)

RECURSIVE SumEnergy(_, _)
SumEnergy(aspects, i) ==
    IF i > Len(aspects) THEN 0
    ELSE aspects[i].field_vector.A + aspects[i].field_vector.N
            + SumEnergy(aspects, i + 1)

\* a mean that is 0 for an empty list
MeanActivationOrZero(aspects) ==
    IF Len(aspects) = 0 THEN [raised |-> "none", value |-> 0]
    ELSE [raised |-> "none",
          value |-> RoundDiv(SumActivation(aspects, 1) * 10, Len(aspects))]

\* round(sum(activation) / len(UPDATED_ASPECTS), 3) in thousandths
MeanActivation(aspects) ==
    IF Len(aspects) = 0 THEN [raised |-> "ZeroDivisionError", value |-> 0]
    ELSE [raised |-> "none",
          value |-> RoundDiv(SumActivation(aspects, 1) * 10, Len(aspects))]

\* the first exception lines 161-163 raise on the loaded data, or "none"
HarmonizeError(state) ==
    IF "aspects" \notin DOMAIN state THEN "KeyError"
    ELSE IF \E i \in 1..Len(state.aspects) :
                ~({"ring", "stage"} \subseteq DOMAIN state.aspects[i])
    THEN "KeyError"
    ELSE "none"

\* a log that puts the newest entry first
PrependEntry(entries, entry) == <<entry>> \o entries
\* log_entries.append(entry)
AppendEntry(entries, entry) == Append(entries, entry)

\* a writer that appends its entry to the file's present content
LogRewriteFromDisk(entries, onDisk) ==
    Append(load_json_catch_all(onDisk, <<>>, TRUE).value, entries[Len(entries)])
\* the array WriteLog dumps: the list held in memory, whatever is on disk
LogToWrite(entries, onDisk) == entries

\* --------------------------------------------------------------- state
VARIABLES
    codexFile, stateFile, logFile,   \* CODEX_FILE, SELF_CLOCK_FILE, LOG_FILE on disk
    clock,                           \* the UTC second
    runs,                            \* invocations started so far
    pc,                              \* per invocation: the statement it is at
    error,                           \* per invocation: the exception that ended it
    TIMESTAMP, codex_data, current_data, CI, CF, UPDATED_ASPECTS, SCI,
    ENERGY_MATTER_SUM, self_clock_state, log_entries,
    reads, writes,                   \* per invocation: file reads and writes done
    codexKind, stateKind,            \* per invocation: what load_json found
    startFiles,                      \* per invocation: state and log file at start
    chained,                         \* per invocation: started right after a
                                     \*   successful run, no file touched since
    sawPending,                      \* per invocation: read the log while another
                                     \*   invocation held an unwritten copy of it
    ledger, logTracked,              \* successful runs since the log was absent
    written, stateByRun,             \* the SelfClockState last written by a run
    clean, lastRun, prevRun, lastChained

locals == <<TIMESTAMP, codex_data, current_data, CI, CF, UPDATED_ASPECTS, SCI,
            ENERGY_MATTER_SUM, self_clock_state, log_entries>>
files == <<codexFile, stateFile, logFile>>
counters == <<reads, writes>>
loaded == <<codexKind, stateKind>>
logHistory == <<ledger, logTracked>>
stateHistory == <<written, stateByRun>>
runHistory == <<clean, lastRun, prevRun, lastChained>>
vars == <<files, clock, runs, pc, error, locals, counters, loaded, startFiles,
          chained, sawPending, logHistory, stateHistory, runHistory>>

None == <<>>
NoRun == [fvs |-> <<>>, logLen |-> 0]

\* ------------------------------------------- what the environment supplies
EditedAspects ==
    <<[name |-> "Awareness", ring |-> 1, stage |-> 1, activation |-> 560],
      [name |-> "Echo", ring |-> 1, stage |-> 1, activation |-> 1234,
       note |-> "kept"],
      [name |-> "Attention", ring |-> 8, stage |-> 12, activation |-> 7]>>

CodexFiles ==
    {Absent, Malformed, Undecodable,
     JsonFile(DumpObject([coherence_index_CI |-> 90,
                          codex_sync_signature |-> "sig-1"]))}

StateFiles ==
    {Absent, Malformed,
     JsonFile(DumpObject([aspects |-> <<>>])),
     JsonFile(DumpObject([aspects |-> EditedAspects])),
     JsonFile(DumpObject([timestamp |-> 0]))}

LogFiles == {Absent, Undecodable}

\* ---------------------------------------------------------------- Init
Init ==
    /\ codexFile = Absent /\ stateFile = Absent /\ logFile = Absent
    /\ clock = 0 /\ runs = 0
    /\ pc = [p \in Procs |-> "idle"]
    /\ error = [p \in Procs |-> "none"]
    /\ TIMESTAMP = [p \in Procs |-> 0]
    /\ codex_data = [p \in Procs |-> None]
    /\ current_data = [p \in Procs |-> None]
    /\ CI = [p \in Procs |-> 0]
    /\ CF = [p \in Procs |-> 0]
    /\ UPDATED_ASPECTS = [p \in Procs |-> None]
    /\ SCI = [p \in Procs |-> 0]
    /\ ENERGY_MATTER_SUM = [p \in Procs |-> 0]
    /\ self_clock_state = [p \in Procs |-> None]
    /\ log_entries = [p \in Procs |-> None]
    /\ reads = [p \in Procs |-> 0]
    /\ writes = [p \in Procs |-> 0]
    /\ codexKind = [p \in Procs |-> "unread"]
    /\ stateKind = [p \in Procs |-> "unread"]
    /\ startFiles = [p \in Procs |-> None]
    /\ chained = [p \in Procs |-> FALSE]
    /\ sawPending = [p \in Procs |-> FALSE]
    /\ ledger = <<>> /\ logTracked = TRUE
    /\ written = None /\ stateByRun = FALSE
    /\ clean = FALSE /\ lastRun = NoRun /\ prevRun = NoRun /\ lastChained = FALSE

\* an invocation ends with an exception: nothing after it runs
Fail(p, exc) ==
    /\ pc' = [pc EXCEPT ![p] = "failed"]
    /\ error' = [error EXCEPT ![p] = exc]
    /\ clean' = FALSE /\ lastRun' = NoRun /\ prevRun' = NoRun
    /\ lastChained' = FALSE

\* -------------------------------------------------------------- actions
\* the interpreter starts the script: line 39 fixes TIMESTAMP
Start(p) ==
    /\ pc[p] = "idle"
    /\ runs < MaxRuns
    /\ runs' = runs + 1
    /\ pc' = [pc EXCEPT ![p] = "load_codex"]
    /\ TIMESTAMP' = [TIMESTAMP EXCEPT ![p] = clock]
    /\ startFiles' = [startFiles EXCEPT ![p] = [state |-> stateFile, log |-> logFile]]
    /\ chained' = [chained EXCEPT ![p] = clean]
    /\ UNCHANGED <<files, clock, error, codex_data, current_data, CI, CF,
                   UPDATED_ASPECTS, SCI, ENERGY_MATTER_SUM, self_clock_state,
                   log_entries, counters, loaded, sawPending, logHistory,
                   stateHistory, runHistory>>

\* lines 115-122
LoadCodex(p) ==
    /\ pc[p] = "load_codex"
    /\ LET r == load_json(codexFile, codex_fallback, FALSE) IN
        /\ reads' = [reads EXCEPT ![p] = @ + ReadsOf(codexFile)]
        /\ codexKind' = [codexKind EXCEPT ![p] = codexFile.kind]
        /\ IF r.raised # "none"
           THEN /\ Fail(p, r.raised)
                /\ UNCHANGED codex_data
           ELSE /\ codex_data' = [codex_data EXCEPT ![p] = r.value]
                /\ pc' = [pc EXCEPT ![p] = "load_state"]
                /\ UNCHANGED <<error, runHistory>>
    /\ UNCHANGED <<files, clock, runs, TIMESTAMP, current_data, CI, CF,
                   UPDATED_ASPECTS, SCI, ENERGY_MATTER_SUM, self_clock_state,
                   log_entries, writes, stateKind, startFiles, chained,
                   sawPending, logHistory, stateHistory>>

\* line 124
LoadState(p) ==
    /\ pc[p] = "load_state"
    /\ LET r == load_json(stateFile, default_self_clock_state, FALSE) IN
        /\ reads' = [reads EXCEPT ![p] = @ + ReadsOf(stateFile)]
        /\ stateKind' = [stateKind EXCEPT ![p] = stateFile.kind]
        /\ IF r.raised # "none"
           THEN /\ Fail(p, r.raised)
                /\ UNCHANGED current_data
           ELSE /\ current_data' = [current_data EXCEPT ![p] = r.value]
                /\ pc' = [pc EXCEPT ![p] = "harmonize"]
                /\ UNCHANGED <<error, runHistory>>
    /\ UNCHANGED <<files, clock, runs, TIMESTAMP, codex_data, CI, CF,
                   UPDATED_ASPECTS, SCI, ENERGY_MATTER_SUM, self_clock_state,
                   log_entries, writes, codexKind, startFiles, chained,
                   sawPending, logHistory, stateHistory>>

\* lines 161-168
Harmonize(p) ==
    /\ pc[p] = "harmonize"
    /\ LET ci == Get(codex_data[p], "coherence_index_CI", 96)
           cf == Get(codex_data[p], "compassion_constraint_Cf", 94)
           exc == HarmonizeError(current_data[p])
           updated == [i \in 1..Len(current_data[p].aspects) |->
                          update_aspect(current_data[p].aspects[i], ci, cf)]
       IN
        /\ CI' = [CI EXCEPT ![p] = ci]
        /\ CF' = [CF EXCEPT ![p] = cf]
        /\ IF exc # "none"
           THEN /\ Fail(p, exc)
                /\ UNCHANGED <<UPDATED_ASPECTS, SCI, ENERGY_MATTER_SUM>>
           ELSE /\ UPDATED_ASPECTS' = [UPDATED_ASPECTS EXCEPT ![p] = updated]
                /\ LET mean == MeanActivation(updated) IN
                    IF mean.raised # "none"
                    THEN /\ Fail(p, mean.raised)
                         /\ UNCHANGED <<SCI, ENERGY_MATTER_SUM>>
                    ELSE /\ SCI' = [SCI EXCEPT ![p] = mean.value]
                         /\ ENERGY_MATTER_SUM' =
                                [ENERGY_MATTER_SUM EXCEPT ![p] = SumEnergy(updated, 1)]
                         /\ pc' = [pc EXCEPT ![p] = "write_state"]
                         /\ UNCHANGED <<error, runHistory>>
    /\ UNCHANGED <<files, clock, runs, TIMESTAMP, codex_data, current_data,
                   self_clock_state, log_entries, counters, loaded, startFiles,
                   chained, sawPending, logHistory, stateHistory>>

\* lines 173-186
WriteState(p) ==
    /\ pc[p] = "write_state"
    /\ LET state == [timestamp |-> TIMESTAMP[p],
                     phi_constant |-> phi,
                     semantic_coherence_index_SCI |-> SCI[p],
                     energy_matter_sum |-> ENERGY_MATTER_SUM[p],
                     codex_reference_signature |->
                         Get(codex_data[p], "codex_sync_signature", "N/A"),
                     aspects |-> UPDATED_ASPECTS[p]]
       IN
        /\ self_clock_state' = [self_clock_state EXCEPT ![p] = state]
        /\ stateFile' = JsonFile(DumpObject(state))
        /\ written' = state
    /\ stateByRun' = TRUE
    /\ writes' = [writes EXCEPT ![p] = @ + 1]
    /\ pc' = [pc EXCEPT ![p] = "load_log"]
    /\ UNCHANGED <<codexFile, logFile, clock, runs, error, TIMESTAMP, codex_data,
                   current_data, CI, CF, UPDATED_ASPECTS, SCI, ENERGY_MATTER_SUM,
                   log_entries, reads, loaded, startFiles, chained, sawPending,
                   logHistory, runHistory>>

\* lines 191-192
LoadLog(p) ==
    /\ pc[p] = "load_log"
    /\ LET r == load_json(logFile, <<>>, TRUE)
           entry == [timestamp |-> TIMESTAMP[p], SCI |-> SCI[p],
                     SigmaE |-> ENERGY_MATTER_SUM[p]]
       IN
        /\ reads' = [reads EXCEPT ![p] = @ + ReadsOf(logFile)]
        /\ IF r.raised # "none"
           THEN /\ Fail(p, r.raised)
                /\ UNCHANGED <<log_entries, sawPending>>
           ELSE /\ log_entries' = [log_entries EXCEPT ![p] = AppendEntry(r.value, entry)]
                /\ sawPending' = [sawPending EXCEPT ![p] =
                                     \E q \in Procs \ {p} : pc[q] = "write_log"]
                /\ pc' = [pc EXCEPT ![p] = "write_log"]
                /\ UNCHANGED <<error, runHistory>>
    /\ UNCHANGED <<files, clock, runs, TIMESTAMP, codex_data, current_data, CI, CF,
                   UPDATED_ASPECTS, SCI, ENERGY_MATTER_SUM, self_clock_state,
                   writes, loaded, startFiles, chained, logHistory, stateHistory>>

\* what the state and log files hold, read back
FieldVectorsOnDisk(file) ==
    LET state == ParseObject(file.text)
    IN [i \in 1..Len(state.aspects) |-> state.aspects[i].field_vector]

\* lines 194-196, and the script's end
WriteLog(p) ==
    /\ pc[p] = "write_log"
    /\ logFile' = JsonFile(DumpList(LogToWrite(log_entries[p], logFile)))
    /\ writes' = [writes EXCEPT ![p] = @ + 1]
    /\ pc' = [pc EXCEPT ![p] = "done"]
    /\ ledger' = Append(ledger,
                        [computed |-> SCI[p],
                         stated |-> self_clock_state[p].semantic_coherence_index_SCI])
    /\ clean' = TRUE
    /\ lastChained' = chained[p]
    /\ prevRun' = IF chained[p] THEN lastRun ELSE NoRun
    /\ lastRun' = [fvs |-> FieldVectorsOnDisk(stateFile),
                   logLen |-> Len(ParseList(logFile'.text))]
    /\ UNCHANGED <<codexFile, stateFile, clock, runs, error, locals, reads, loaded,
                   startFiles, chained, sawPending, logTracked, stateHistory>>

\* the process ends; its memory is gone
Exit(p) ==
    /\ pc[p] \in {"done", "failed"}
    /\ pc' = [pc EXCEPT ![p] = "idle"]
    /\ error' = [error EXCEPT ![p] = "none"]
    /\ TIMESTAMP' = [TIMESTAMP EXCEPT ![p] = 0]
    /\ codex_data' = [codex_data EXCEPT ![p] = None]
    /\ current_data' = [current_data EXCEPT ![p] = None]
    /\ CI' = [CI EXCEPT ![p] = 0]
    /\ CF' = [CF EXCEPT ![p] = 0]
    /\ UPDATED_ASPECTS' = [UPDATED_ASPECTS EXCEPT ![p] = None]
    /\ SCI' = [SCI EXCEPT ![p] = 0]
    /\ ENERGY_MATTER_SUM' = [ENERGY_MATTER_SUM EXCEPT ![p] = 0]
    /\ self_clock_state' = [self_clock_state EXCEPT ![p] = None]
    /\ log_entries' = [log_entries EXCEPT ![p] = None]
    /\ reads' = [reads EXCEPT ![p] = 0]
    /\ writes' = [writes EXCEPT ![p] = 0]
    /\ codexKind' = [codexKind EXCEPT ![p] = "unread"]
    /\ stateKind' = [stateKind EXCEPT ![p] = "unread"]
    /\ startFiles' = [startFiles EXCEPT ![p] = None]
    /\ chained' = [chained EXCEPT ![p] = FALSE]
    /\ sawPending' = [sawPending EXCEPT ![p] = FALSE]
    /\ UNCHANGED <<files, clock, runs, logHistory, stateHistory, runHistory>>

\* ------------------------------------------- the environment, between runs
AllIdle == \A p \in Procs : pc[p] = "idle"

Touched ==
    /\ clean' = FALSE /\ lastRun' = NoRun /\ prevRun' = NoRun
    /\ lastChained' = FALSE

EditCodex ==
    /\ AllIdle
    /\ \E f \in CodexFiles \ {codexFile} : codexFile' = f
    /\ Touched
    /\ UNCHANGED <<stateFile, logFile, clock, runs, pc, error, locals, counters,
                   loaded, startFiles, chained, sawPending, logHistory,
                   stateHistory>>

EditState ==
    /\ AllIdle
    /\ \E f \in StateFiles \ {stateFile} : stateFile' = f
    /\ written' = None /\ stateByRun' = FALSE
    /\ Touched
    /\ UNCHANGED <<codexFile, logFile, clock, runs, pc, error, locals, counters,
                   loaded, startFiles, chained, sawPending, logHistory>>

EditLog ==
    /\ AllIdle
    /\ \E f \in LogFiles \ {logFile} :
        /\ logFile' = f
        /\ logTracked' = (f = Absent)
    /\ ledger' = <<>>
    /\ Touched
    /\ UNCHANGED <<codexFile, stateFile, clock, runs, pc, error, locals, counters,
                   loaded, startFiles, chained, sawPending, stateHistory>>

Tick ==
    /\ AllIdle
    /\ clock < MaxClock
    /\ clock' = clock + 1
    /\ UNCHANGED <<files, runs, pc, error, locals, counters, loaded, startFiles,
                   chained, sawPending, logHistory, stateHistory, runHistory>>

Env == EditCodex \/ EditState \/ EditLog \/ Tick

Run(p) ==
    \/ Start(p) \/ LoadCodex(p) \/ LoadState(p) \/ Harmonize(p)
    \/ WriteState(p) \/ LoadLog(p) \/ WriteLog(p) \/ Exit(p)

\* one invocation at a time, the files edited at will between invocations
Next == Env \/ \E p \in SeqProcs : Run(p)
Spec == Init /\ [][Next]_vars

\* two invocations against the same files, interleaved at the file operations;
\* the files are prepared before the first invocation starts
NextConc == (runs = 0 /\ Env) \/ \E p \in Procs : Run(p)
SpecConc == Init /\ [][NextConc]_vars

\* ------------------------------------------------------------ properties
Written == {"load_log", "write_log", "done"}
Harmonized == {"write_state"} \cup Written
LogOnDisk == load_json_catch_all(logFile, <<>>, TRUE).value
StateOnDisk == ParseObject(stateFile.text)

\* C1: while the log file has only been written by runs since it was absent,
\* it holds one entry per successful run, in run order, and the k-th entry's
\* SCI is the SCI the k-th run computed and wrote to the state file.
C1_LogHoldsEveryRun ==
    logTracked =>
        /\ logFile.kind \in {"absent", "json"}
        /\ Len(LogOnDisk) = Len(ledger)
        /\ \A k \in 1..Len(ledger) :
              /\ LogOnDisk[k].SCI = ledger[k].computed
              /\ LogOnDisk[k].SCI = ledger[k].stated

C1_TwoRunsLogged ==
    /\ logTracked
    /\ Len(ledger) >= 2
    /\ ledger[1].computed # ledger[2].computed
    /\ Len(LogOnDisk) = Len(ledger)

\* C2: load_json never raises: for every file it returns the parsed content
\* or the fallback, and a file that cannot be parsed gives what a missing
\* file gives; so no run ends with an exception out of load_json.
LoadJsonTotal(file, fallback, isList) ==
    LET r == load_json(file, fallback, isList) IN
    /\ r.raised = "none"
    /\ file.kind # "json" => r = load_json(Absent, fallback, isList)

C2_LoadJsonNeverRaises ==
    /\ LoadJsonTotal(codexFile, codex_fallback, FALSE)
    /\ LoadJsonTotal(stateFile, default_self_clock_state, FALSE)
    /\ LoadJsonTotal(logFile, <<>>, TRUE)
    /\ \A p \in Procs : error[p] # "UnicodeDecodeError"

\* C3: a successful run that started right after another successful run, no
\* file touched in between, leaves every aspect's field_vector in the state
\* file as the first run left it, and one more entry in the log file.
C3_SecondRunSameFieldVectors ==
    lastChained =>
        /\ lastRun.fvs = prevRun.fvs
        /\ lastRun.logLen = prevRun.logLen + 1

C3_TwoRunsInSuccession ==
    /\ lastChained
    /\ Len(lastRun.fvs) > 0
    /\ lastRun.logLen >= 2

C5_DefaultAspects ==
    \A p \in Procs :
        (stateKind[p] \in {"absent", "malformed"}) =>
            LET aspects == current_data[p].aspects IN
            /\ Len(aspects) = 32
            /\ \A n \in 1..Len(aspects) :
                  LET i == n - 1 IN
                  /\ aspects[n].name = DEFAULT_ASPECTS[n]
                  /\ aspects[n].ring = (i \div 4) + 1
                  /\ aspects[n].stage = (i % 12) + 1
                  /\ aspects[n].activation = 0
                  /\ aspects[n].ring \in 1..8
                  /\ aspects[n].stage \in 1..12

C5_DefaultStateLoaded ==
    \E p \in Procs : stateKind[p] = "absent" /\ pc[p] = "harmonize"

\* C6 as stated: a run performs at most two file reads and two file writes.
C6_AtMostTwoReads ==
    \A p \in Procs : reads[p] <= 2 /\ writes[p] <= 2

\* C6 amended: a run performs at most three file reads (codex, state and log
\* file, each read only if it exists) and at most two file writes.
C6_AtMostThreeReads ==
    \A p \in Procs : reads[p] <= 3 /\ writes[p] <= 2

C6_ThreeReadsTwoWrites ==
    \E p \in Procs : pc[p] = "done" /\ reads[p] = 3 /\ writes[p] = 2

\* C7: when two invocations have both finished and one of them read the log
\* while the other held a copy it had not yet written, neither has failed,
\* the log file is the list of whichever wrote last, and it holds fewer
\* entries than runs have succeeded.
C7_LostLogEntry ==
    \A p, q \in Procs :
        (p # q /\ pc[p] = "done" /\ pc[q] = "done" /\ sawPending[q]
              /\ logTracked) =>
            /\ error[p] = "none" /\ error[q] = "none"
            /\ LogOnDisk \in {log_entries[p], log_entries[q]}
            /\ Len(LogOnDisk) < Len(ledger)

C7_BothReadBeforeEitherWrote ==
    \E p, q \in Procs :
        /\ p # q /\ pc[p] = "done" /\ pc[q] = "done" /\ sawPending[q]
        /\ logTracked
        /\ Len(ledger) = 2 /\ Len(LogOnDisk) = 1

\* C8: the state file a run has written, read back with load_json, is the
\* SelfClockState that run wrote, aspects in the same order.
C8_StateRoundTrip ==
    stateByRun =>
        load_json(stateFile, default_self_clock_state, FALSE)
            = [raised |-> "none", value |-> written]

C8_NextRunReadBack ==
    /\ stateByRun
    /\ \E p \in Procs :
          /\ pc[p] = "harmonize" /\ stateKind[p] = "json"
          /\ current_data[p] = written
          /\ Len(written.aspects) = 32

\* C9: a run that loaded an empty aspect list fails with ZeroDivisionError
\* and has written nothing: state file and log file are as at its start.
EmptyLoaded(p) ==
    /\ stateKind[p] = "json"
    /\ pc[p] \in Harmonized \cup {"failed"}
    /\ "aspects" \in DOMAIN current_data[p]
    /\ Len(current_data[p].aspects) = 0

C9_EmptyAspectsFailBeforeWrite ==
    \A p \in Procs :
        EmptyLoaded(p) =>
            /\ pc[p] = "failed"
            /\ error[p] = "ZeroDivisionError"
            /\ writes[p] = 0
            /\ stateFile = startFiles[p].state
            /\ logFile = startFiles[p].log

C9_EmptyAspectsRunFailed ==
    \E p \in Procs :
        /\ EmptyLoaded(p) /\ pc[p] = "failed"
        /\ stateFile.kind = "json" /\ logFile.kind = "json"

\* C10: a run that got as far as writing keeps the aspect list's length and,
\* position by position, every key but activation and field_vector (name,
\* ring and stage among them); the activation it writes is fixed by ring,
\* stage, CI and CF alone; and that list is what the state file holds.
C10_AspectsFrame ==
    \A p \in Procs :
        pc[p] \in Harmonized =>
            LET old == current_data[p].aspects
                new == UPDATED_ASPECTS[p]
            IN
            /\ Len(new) = Len(old)
            /\ \A i \in 1..Len(old) :
                  /\ DOMAIN new[i] = DOMAIN old[i] \cup {"activation", "field_vector"}
                  /\ new[i].name = old[i].name
                  /\ new[i].ring = old[i].ring
                  /\ new[i].stage = old[i].stage
                  /\ \A k \in DOMAIN old[i] \ {"activation", "field_vector"} :
                        new[i][k] = old[i][k]
                  /\ new[i].activation
                        = Activation(old[i].ring, old[i].stage, CI[p], CF[p])
            /\ pc[p] \in Written =>
                  /\ self_clock_state[p].aspects = new
                  /\ StateOnDisk.aspects = new

C10_SameRingStageOtherActivation ==
    \E p \in Procs :
        /\ pc[p] = "done"
        /\ \E i, j \in 1..Len(current_data[p].aspects) :
              LET old == current_data[p].aspects IN
              /\ old[i].ring = old[j].ring /\ old[i].stage = old[j].stage
              /\ old[i].activation # old[j].activation
====
